---- MODULE Spec2Model ----
(***************************************************************************)
(* A model of pomerium's policy evaluator (authorize/evaluator/policy.go)  *)
(* and of the PPL-to-rego Generator (pkg/policy/generator).                *)
(*                                                                         *)
(* Go strings that the code formats or parses are sequences of one         *)
(* character strings, so that fmt.Sprint, fmt.Sprintf and strconv.Atoi are *)
(* modelled by what they do to the characters.                             *)
(***************************************************************************)
EXTENDS Integers, Sequences, FiniteSets, TLC

VARIABLES
    config,     \* the *config.Policy handed to NewPolicyEvaluator
    evaluator,  \* what NewPolicyEvaluator returned: (e, err) and e.queries
    pc,         \* per caller: position of its Evaluate call
    input,      \* per caller: the *PolicyInput of its call
    idx,        \* per caller: index of the range loop over e.queries
    output,     \* per caller: the local `output` of Evaluate
    ran,        \* per caller: what each executed query yielded, in order
    ids,        \* Generator.ids
    issued,     \* per base name: the names NewRule returned, in call order
    policy,     \* the *parser.Policy of the last Generate call
    built,      \* the head rules the last Generate call built, in order
    ret         \* what the last Generate call returned: (mod, err)

evalVars == <<config, evaluator, pc, input, idx, output, ran>>
genVars == <<ids, issued, policy, built, ret>>
vars == <<config, evaluator, pc, input, idx, output, ran, ids, issued, policy, built, ret>>

(***************************************************************************)
(* Bounds                                                                  *)
(***************************************************************************)
\* sub-policies plus rego fragments of a config.Policy, one caller
MaxConfigSize == 4

\* sub-policies plus rego fragments of a config.Policy, concurrent callers
MaxConcConfigSize == 3

\* policy rules plus criteria of a parser.Policy
MaxPolicySize == 4

\* NewRule calls served before a Generate call on any policy
MaxPriorCalls == 1

\* policy rules plus criteria of a parser.Policy between NewRule calls
MaxNamePolicySize == 2

\* NewRule calls of one Generator
MaxNames == 13

\* NewRule calls a Generator has served when a Generate call among them starts
MaxGenerateStart == 3

Callers == {"c1", "c2"}

Solo == {"c1"}

\* The one value of a singleton set.  Only({ e : x \in {v} }) is e with x bound
\* to the value of v: the result of a call is computed once and then used, as
\* in the statement  x := v.  Nested bindings read from the last line up.
Only(S) == CHOOSE r \in S : TRUE

(***************************************************************************)
(* Strings, fmt.Sprint, strconv.Atoi                                       *)
(***************************************************************************)
Digits == <<"0", "1", "2", "3", "4", "5", "6", "7", "8", "9">>

DigitChars == {Digits[i] : i \in 1..10}

DigitVal(ch) == (CHOOSE i \in 1..10 : Digits[i] = ch) - 1

RECURSIVE DecNat(_)
DecNat(n) == IF n < 10 THEN <<Digits[n + 1]>> ELSE DecNat(n \div 10) \o <<Digits[(n % 10) + 1]>>

\* the %d / %v rendering of an integer
Dec(n) == IF n < 0 THEN <<"-">> \o DecNat(0 - n) ELSE DecNat(n)

RECURSIVE DigitsVal(_, _)
DigitsVal(s, acc) == IF s = <<>> THEN acc ELSE DigitsVal(Tail(s), acc * 10 + DigitVal(Head(s)))

\* strconv.Atoi: an optional sign, then one or more decimal digits
Atoi(s) ==
    LET signed == s # <<>> /\ Head(s) \in {"+", "-"}
        body == IF signed THEN Tail(s) ELSE s
        okay == body # <<>> /\ \A i \in 1..Len(body) : body[i] \in DigitChars
    IN  IF ~okay THEN [ok |-> FALSE, n |-> 0]
        ELSE [ok |-> TRUE,
              n |-> IF signed /\ Head(s) = "-" THEN 0 - DigitsVal(body, 0) ELSE DigitsVal(body, 0)]

\* values of the engine's untyped result tree
Bool(b) == [t |-> "bool", b |-> b]
Num(n) == [t |-> "num", n |-> n]
Str(s) == [t |-> "str", s |-> s]
Arr(a) == [t |-> "arr", a |-> a]
Obj(o) == [t |-> "obj", o |-> o]

\* fmt.Sprint of a scalar of the result tree
Sprint(v) ==
    CASE v.t = "bool" -> IF v.b THEN <<"t", "r", "u", "e">> ELSE <<"f", "a", "l", "s", "e">>
      [] v.t = "num" -> Dec(v.n)
      [] v.t = "str" -> v.s
      [] OTHER -> <<"[", "]">>

(***************************************************************************)
(* PolicyOutput, Denial, Merge                                             *)
(***************************************************************************)
NoDenial == [has |-> FALSE]

Denial(status, message) == [has |-> TRUE, Status |-> status, Message |-> message]

PolicyOutput(allow, deny) == [Allow |-> allow, Deny |-> deny]

\* new(PolicyOutput)
ZeroOutput == PolicyOutput(FALSE, NoDenial)

\* a nil *PolicyOutput
NilOutput == [nil |-> TRUE]

MergeFirstDenialWins(out, other) ==
    PolicyOutput(out.Allow \/ other.Allow, IF out.Deny.has THEN out.Deny ELSE other.Deny)

Merge(out, other) ==
    PolicyOutput(out.Allow \/ other.Allow, IF other.Deny.has THEN other.Deny ELSE out.Deny)

(***************************************************************************)
(* The rego engine: what a prepared query yields for an input.  A script   *)
(* is named by what its module defines.                                    *)
(***************************************************************************)
Inputs == [IsValidClientCertificate : BOOLEAN]

MsgNo == <<"n", "o">>

Row(v) == [result |-> v]

Rows(v) == [err |-> FALSE, rs |-> <<Row(v)>>]

\* query.Eval(ctx, rego.EvalInput(input)): (rs, err)
Eval(script, in) ==
    CASE script = "base:cert" -> Rows(Obj([allow |-> Bool(in.IsValidClientCertificate)]))
      [] script = "base:deny" ->
            Rows(Obj([allow |-> Bool(FALSE), deny |-> Arr(<<Num(403), Str(MsgNo)>>)]))
      [] script = "allow" -> Rows(Obj([allow |-> Bool(TRUE)]))
      [] script = "deny401" ->
            Rows(Obj([allow |-> Bool(FALSE), deny |-> Arr(<<Str(<<"4", "0", "1">>), Bool(TRUE)>>)]))
      [] script = "denyNaN" ->
            Rows(Obj([allow |-> Bool(TRUE), deny |-> Arr(<<Str(<<"4", "x">>), Str(MsgNo)>>)]))
      [] script = "denyEmpty" -> Rows(Obj([allow |-> Bool(TRUE), deny |-> Arr(<<>>)]))
      [] script = "denyOne" -> Rows(Obj([allow |-> Bool(TRUE), deny |-> Arr(<<Num(403)>>)]))
      [] script = "denyStr" -> Rows(Obj([allow |-> Str(MsgNo), deny |-> Str(MsgNo)]))
      [] script = "scalar" -> Rows(Bool(TRUE))
      [] script = "norows" -> [err |-> FALSE, rs |-> <<>>]
      [] OTHER -> [err |-> TRUE, rs |-> <<>>]

(***************************************************************************)
(* getAllow, getDeny, evaluateQuery                                        *)
(***************************************************************************)
\* vars["result"].(map[string]interface{})
ResultMap(bindings) ==
    IF "result" \in DOMAIN bindings /\ bindings.result.t = "obj"
    THEN [ok |-> TRUE, m |-> bindings.result.o]
    ELSE [ok |-> FALSE, m |-> <<>>]

getAllow(bindings) ==
    LET r == ResultMap(bindings)
    IN  IF ~r.ok THEN FALSE
        ELSE IF ~("allow" \in DOMAIN r.m /\ r.m.allow.t = "bool") THEN FALSE
        ELSE r.m.allow.b

\* pair[0] and pair[1] are indexed without a length check: an index past the end
\* of the slice is a run-time panic
getDenyAtoiErrIgnored(bindings) ==
    LET r == ResultMap(bindings)
    IN  IF ~r.ok THEN [panic |-> FALSE, deny |-> NoDenial]
        ELSE IF ~("deny" \in DOMAIN r.m /\ r.m.deny.t = "arr") THEN [panic |-> FALSE, deny |-> NoDenial]
        ELSE LET pair == r.m.deny.a
             IN  IF Len(pair) < 2 THEN [panic |-> TRUE, deny |-> NoDenial]
                 ELSE [panic |-> FALSE,
                       deny |-> Denial(Atoi(Sprint(pair[1])).n, Sprint(pair[2]))]

getDeny(bindings) ==
    LET r == ResultMap(bindings)
    IN  IF ~r.ok THEN [panic |-> FALSE, deny |-> NoDenial]
        ELSE IF ~("deny" \in DOMAIN r.m /\ r.m.deny.t = "arr") THEN [panic |-> FALSE, deny |-> NoDenial]
        ELSE LET pair == r.m.deny.a
             IN  IF Len(pair) < 1 THEN [panic |-> TRUE, deny |-> NoDenial]
                 ELSE LET status == Atoi(Sprint(pair[1]))
                      IN  IF ~status.ok THEN [panic |-> FALSE, deny |-> NoDenial]
                          ELSE IF Len(pair) < 2 THEN [panic |-> TRUE, deny |-> NoDenial]
                          ELSE [panic |-> FALSE, deny |-> Denial(status.n, Sprint(pair[2]))]

\* what evaluateQuery does: "error" (nil, err), "panic", or "ok" with an output
QueryResult(kind, out) == [kind |-> kind, out |-> out]

evaluateQueryEmptyTolerated(in, query) ==
    LET r == Eval(query, in)
    IN  IF r.err THEN QueryResult("error", NilOutput)
        ELSE IF Len(r.rs) = 0 THEN QueryResult("ok", ZeroOutput)
        ELSE LET d == getDeny(r.rs[1])
             IN  IF d.panic THEN QueryResult("panic", NilOutput)
                 ELSE QueryResult("ok", PolicyOutput(getAllow(r.rs[1]), d.deny))

evaluateQuery(in, query) ==
    LET r == Eval(query, in)
    IN  IF r.err THEN QueryResult("error", NilOutput)
        ELSE IF Len(r.rs) = 0 THEN QueryResult("error", NilOutput)
        ELSE LET d == getDeny(r.rs[1])
             IN  IF d.panic THEN QueryResult("panic", NilOutput)
                 ELSE QueryResult("ok", PolicyOutput(getAllow(r.rs[1]), d.deny))

(***************************************************************************)
(* NewPolicyEvaluator                                                      *)
(***************************************************************************)
\* policy.GenerateRegoFromPolicy(configPolicy.ToPPL()): (base, err)
GenerateRegoFromPolicy(ppl) ==
    CASE ppl = "cert" -> [err |-> FALSE, script |-> "base:cert"]
      [] ppl = "deny" -> [err |-> FALSE, script |-> "base:deny"]
      [] OTHER -> [err |-> TRUE, script |-> ""]

\* r.PrepareForEval(ctx) fails on a module that does not compile
PrepareFails(script) == script = "bad"

\* for _, src := range sp.Rego { if src != "" { scripts = append(scripts, src) } }
RECURSIVE AddRegoKeepEmpty(_, _)
AddRegoKeepEmpty(scripts, rego) ==
    IF rego = <<>> THEN scripts ELSE AddRegoKeepEmpty(Append(scripts, Head(rego)), Tail(rego))

RECURSIVE AddRego(_, _)
AddRego(scripts, rego) ==
    IF rego = <<>> THEN scripts
    ELSE AddRego(IF Head(rego) # "" THEN Append(scripts, Head(rego)) ELSE scripts, Tail(rego))

\* for _, sp := range configPolicy.SubPolicies { ... }
RECURSIVE AddSubPolicies(_, _)
AddSubPolicies(scripts, sps) ==
    IF sps = <<>> THEN scripts ELSE AddSubPolicies(AddRego(scripts, Head(sps).Rego), Tail(sps))

\* for _, script := range scripts { ...; e.queries = append(e.queries, q) }
RECURSIVE PrepareAll(_, _)
PrepareAll(queries, scripts) ==
    IF scripts = <<>> THEN [err |-> FALSE, queries |-> queries]
    ELSE IF PrepareFails(Head(scripts)) THEN [err |-> TRUE, queries |-> <<>>]
    ELSE PrepareAll(Append(queries, Head(scripts)), Tail(scripts))

NewPolicyEvaluator(configPolicy) ==
    LET base == GenerateRegoFromPolicy(configPolicy.PPL)
    IN  IF base.err THEN [err |-> TRUE, queries |-> <<>>]
        ELSE PrepareAll(<<>>, AddSubPolicies(<<base.script>>, configPolicy.SubPolicies))

(***************************************************************************)
(* The configurations NewPolicyEvaluator is called with                    *)
(***************************************************************************)
PPLs == {"cert", "deny", "unknown criterion"}

Fragments ==
    {"", "bad", "allow", "deny401", "denyNaN", "denyEmpty", "denyOne", "denyStr", "scalar",
     "norows", "fails"}

SubPolicy(rego) == [Rego |-> rego]

\* every list of sub-policies with at most n sub-policies and fragments together
RECURSIVE SubPolicyLists(_)
SubPolicyLists(n) ==
    IF n = 0 THEN {<<>>}
    ELSE LET prev == SubPolicyLists(n - 1)
         IN  prev \cup {Append(sps, SubPolicy(<<>>)) : sps \in prev}
                  \cup {[sps EXCEPT ![Len(sps)] = SubPolicy(Append(@.Rego, f))] :
                            sps \in {s \in prev : s # <<>>}, f \in Fragments}

Configs == [PPL : PPLs, SubPolicies : SubPolicyLists(MaxConfigSize)]

ConcConfigs == [PPL : PPLs, SubPolicies : SubPolicyLists(MaxConcConfigSize)]

NoConfig == [PPL |-> "", SubPolicies |-> <<>>]

(***************************************************************************)
(* Evaluator actions                                                       *)
(***************************************************************************)
NoInput == [IsValidClientCertificate |-> FALSE]

EvalInit ==
    /\ config = NoConfig
    /\ evaluator = [state |-> "none", queries |-> <<>>]
    /\ pc = [c \in Callers |-> "idle"]
    /\ input = [c \in Callers |-> NoInput]
    /\ idx = [c \in Callers |-> 0]
    /\ output = [c \in Callers |-> ZeroOutput]
    /\ ran = [c \in Callers |-> <<>>]

\* e, err := NewPolicyEvaluator(ctx, store, configPolicy)
Construct(configs) ==
    /\ evaluator.state = "none"
    /\ \E configPolicy \in configs :
          /\ config' = configPolicy
          /\ LET r == NewPolicyEvaluator(configPolicy)
             IN  evaluator' = [state |-> IF r.err THEN "failed" ELSE "ready", queries |-> r.queries]
    /\ UNCHANGED <<pc, input, idx, output, ran>>

\* a caller enters e.Evaluate(ctx, input): output := new(PolicyOutput)
Call(c, in) ==
    /\ evaluator.state = "ready"
    /\ pc[c] = "idle"
    /\ pc' = [pc EXCEPT ![c] = "loop"]
    /\ input' = [input EXCEPT ![c] = in]
    /\ idx' = [idx EXCEPT ![c] = 1]
    /\ output' = [output EXCEPT ![c] = ZeroOutput]
    /\ ran' = [ran EXCEPT ![c] = <<>>]
    /\ UNCHANGED <<config, evaluator>>

\* one iteration of `for _, query := range e.queries`
IterateConsuming(c) ==
    /\ pc[c] = "loop"
    /\ evaluator.queries # <<>>
    /\ LET query == Head(evaluator.queries)
           o == evaluateQuery(input[c], query)
       IN  /\ ran' = [ran EXCEPT ![c] = Append(@, [query |-> query, kind |-> o.kind, out |-> o.out])]
           /\ IF o.kind = "ok"
              THEN /\ output' = [output EXCEPT ![c] = Merge(@, o.out)]
                   /\ pc' = pc
              ELSE /\ output' = [output EXCEPT ![c] = NilOutput]
                   /\ pc' = [pc EXCEPT ![c] = o.kind]
    /\ evaluator' = [evaluator EXCEPT !.queries = Tail(@)]
    /\ UNCHANGED <<config, input, idx>>

Iterate(c) ==
    /\ pc[c] = "loop"
    /\ idx[c] <= Len(evaluator.queries)
    /\ LET query == evaluator.queries[idx[c]]
           o == evaluateQuery(input[c], query)
       IN  /\ ran' = [ran EXCEPT ![c] = Append(@, [query |-> query, kind |-> o.kind, out |-> o.out])]
           /\ IF o.kind = "ok"
              THEN /\ output' = [output EXCEPT ![c] = Merge(@, o.out)]
                   /\ idx' = [idx EXCEPT ![c] = @ + 1]
                   /\ pc' = pc
              ELSE \* return nil, err; or the panic unwinds the call
                   /\ output' = [output EXCEPT ![c] = NilOutput]
                   /\ idx' = idx
                   /\ pc' = [pc EXCEPT ![c] = o.kind]
    /\ UNCHANGED <<config, evaluator, input>>

\* return output, nil
Return(c) ==
    /\ pc[c] = "loop"
    /\ idx[c] > Len(evaluator.queries)
    /\ pc' = [pc EXCEPT ![c] = "ok"]
    /\ UNCHANGED <<config, evaluator, input, idx, output, ran>>

\* the caller has used the result; it may call again
Release(c) ==
    /\ pc[c] \in {"ok", "error", "panic"}
    /\ pc' = [pc EXCEPT ![c] = "idle"]
    /\ input' = [input EXCEPT ![c] = NoInput]
    /\ idx' = [idx EXCEPT ![c] = 0]
    /\ output' = [output EXCEPT ![c] = ZeroOutput]
    /\ ran' = [ran EXCEPT ![c] = <<>>]
    /\ UNCHANGED <<config, evaluator>>

\* Evaluate as one call: the loop over e.queries run to its end
RECURSIVE EvaluateFrom(_, _, _)
EvaluateFrom(out, queries, in) ==
    IF queries = <<>> THEN [pc |-> "ok", output |-> out]
    ELSE LET o == evaluateQuery(in, Head(queries))
         IN  IF o.kind # "ok" THEN [pc |-> o.kind, output |-> NilOutput]
             ELSE EvaluateFrom(Merge(out, o.out), Tail(queries), in)

Evaluate(queries, in) == EvaluateFrom(ZeroOutput, queries, in)

(***************************************************************************)
(* The Generator: rules, rule sets, NewRule                                *)
(***************************************************************************)
N_allow == <<"a", "l", "l", "o", "w">>
N_deny == <<"d", "e", "n", "y">>
N_and == <<"a", "n", "d">>
N_or == <<"o", "r">>
N_not == <<"n", "o", "t">>
N_nor == <<"n", "o", "r">>
N_accept == <<"a", "c", "c", "e", "p", "t">>
N_email == <<"e", "m", "a", "i", "l">>
N_claim == <<"c", "l", "a", "i", "m">>
N_nope == <<"n", "o", "p", "e">>

\* an *ast.Rule: head name, number of positional head arguments, head value, body
Rule(name, args, value, body) ==
    [name |-> name, args |-> args, default |-> FALSE, value |-> value, body |-> body, loc |-> 0]

\* ast.MustParseRule(`default <name> = false`)
DefaultRule(name) ==
    [name |-> name, args |-> 0, default |-> TRUE, value |-> "false", body |-> <<>>, loc |-> 0]

\* ast.Assign.Expr(ast.VarTerm("v"), ast.VarTerm(name))
AssignV(name) == [op |-> "assign", name |-> name]

\* ast.NewExpr(ast.VarTerm(name))
Ref(name) == [op |-> "ref", name |-> name]

\* rules.Add(rule): an ast.RuleSet is a set kept in insertion order, Add leaves
\* the set as it is when it already holds a rule equal to the new one
RuleSetAdd(rules, rule) ==
    IF \E i \in 1..Len(rules) : rules[i] = rule THEN rules ELSE Append(rules, rule)

EmptyMap == [x \in {} |-> 0]

Put(f, k, v) == [x \in DOMAIN f \cup {k} |-> IF x = k THEN v ELSE f[x]]

\* g.ids[name]: a Go map read yields 0 for a missing key
IdOf(g, name) == IF name \in DOMAIN g.ids THEN g.ids[name] ELSE 0

IssuedOf(g, name) == IF name \in DOMAIN g.issued THEN g.issued[name] ELSE <<>>

\* a Generator: ids, and the log of the names it has handed out
NewRuleNoIncrement(g, name) ==
    LET id == IdOf(g, name)
        ruleName == name \o <<"_">> \o Dec(id)
    IN  [g |-> [ids |-> Put(g.ids, name, id),
                issued |-> Put(g.issued, name, Append(IssuedOf(g, name), ruleName))],
         rule |-> Rule(ruleName, 0, "", <<>>)]

NewRule(g, name) ==
    LET id == IdOf(g, name)
        ruleName == name \o <<"_">> \o Dec(id)
    IN  [g |-> [ids |-> Put(g.ids, name, id + 1),
                issued |-> Put(g.issued, name, Append(IssuedOf(g, name), ruleName))],
         rule |-> Rule(ruleName, 0, "", <<>>)]

(***************************************************************************)
(* The criteria and the four conditional generators                        *)
(***************************************************************************)
\* the registered criteria
Registered == {N_accept, N_email, N_claim}

\* positional arguments of the helper function a criterion allocates (0: none)
HelperArgs(name) ==
    CASE name = N_email -> 1
      [] name = N_claim -> 2
      [] OTHER -> 0

\* a parser.Criterion is lowered only when it is registered and well-formed
CriterionFails(criterion) == criterion.Name \notin Registered \/ criterion.Data = "malformed"

\* lowers each criterion to a rule of its own (and its helper function), in order
RECURSIVE generateCriterionRules(_, _, _, _)
generateCriterionRules(g, rules, criteria, refs) ==
    IF criteria = <<>> THEN [err |-> FALSE, g |-> g, rules |-> rules, refs |-> refs]
    ELSE IF CriterionFails(Head(criteria)) THEN [err |-> TRUE, g |-> g, rules |-> rules, refs |-> refs]
    ELSE LET name == Head(criteria).Name
             withHelper == HelperArgs(name) > 0
         IN  Only({ Only({ Only({
                 generateCriterionRules(helper.g, rules2, Tail(criteria),
                                        Append(refs, main.rule.name))
             : rules2 \in {RuleSetAdd(IF withHelper
                                      THEN RuleSetAdd(rules, [helper.rule EXCEPT
                                                                !.args = HelperArgs(name)])
                                      ELSE rules,
                                      [main.rule EXCEPT !.body =
                                          IF withHelper THEN <<Ref(helper.rule.name)>>
                                                        ELSE <<>>])} })
             : helper \in {IF withHelper THEN NewRule(main.g, name) ELSE main} })
             : main \in {NewRule(g, name)} })

CombinatorName(comb) ==
    CASE comb = "and" -> N_and
      [] comb = "or" -> N_or
      [] comb = "not" -> N_not
      [] OTHER -> N_nor

\* OR: one rule per criterion, all with the sub-rule's name
RECURSIVE AddDisjuncts(_, _, _)
AddDisjuncts(rules, name, refs) ==
    IF refs = <<>> THEN rules
    ELSE Only({ AddDisjuncts(rules1, name, Tail(refs))
              : rules1 \in {RuleSetAdd(rules, Rule(name, 0, "v", <<Ref(Head(refs))>>))} })

AddSubRule(comb, rules, name, refs) ==
    IF comb = "or" THEN AddDisjuncts(rules, name, refs)
    ELSE RuleSetAdd(rules, Rule(name, 0, "v",
                                [i \in 1..Len(refs) |->
                                    [op |-> IF comb = "and" THEN "ref" ELSE comb, name |-> refs[i]]]))

\* generateAndRule, generateOrRule, generateNotRule, generateNorRule
conditionalGenerator(comb, g, rules, criteria) ==
    Only({ Only({
        IF cr.err THEN [err |-> TRUE, g |-> cr.g, rules |-> cr.rules, name |-> <<>>]
        ELSE [err |-> FALSE, g |-> cr.g,
              rules |-> AddSubRule(comb, cr.rules, sub.rule.name, cr.refs),
              name |-> sub.rule.name]
    : cr \in {generateCriterionRules(sub.g, rules, criteria, <<>>)} })
    : sub \in {NewRule(g, CombinatorName(comb))} })

(***************************************************************************)
(* Generate                                                                *)
(***************************************************************************)
Combinators == <<"and", "or", "not", "nor">>

CriteriaOf(policyRule, comb) ==
    CASE comb = "and" -> policyRule.And
      [] comb = "or" -> policyRule.Or
      [] comb = "not" -> policyRule.Not
      [] OTHER -> policyRule.Nor

\* the fields of one policy rule, from field number k on
RECURSIVE LowerFieldsAssignEach(_, _, _, _, _)
LowerFieldsAssignEach(g, rules, policyRule, k, body) ==
    IF k > Len(Combinators) THEN [err |-> FALSE, g |-> g, rules |-> rules, body |-> body]
    ELSE IF Len(CriteriaOf(policyRule, Combinators[k])) = 0
         THEN LowerFieldsAssignEach(g, rules, policyRule, k + 1, body)
    ELSE Only({
             IF sub.err THEN [err |-> TRUE, g |-> sub.g, rules |-> sub.rules, body |-> body]
             ELSE Only({ LowerFieldsAssignEach(sub.g, sub.rules, policyRule, k + 1, body1)
                       : body1 \in {body \o <<AssignV(sub.name), Ref(sub.name)>>} })
         : sub \in {conditionalGenerator(Combinators[k], g, rules,
                                         CriteriaOf(policyRule, Combinators[k]))} })

RECURSIVE LowerFields(_, _, _, _, _)
LowerFields(g, rules, policyRule, k, body) ==
    IF k > Len(Combinators) THEN [err |-> FALSE, g |-> g, rules |-> rules, body |-> body]
    ELSE IF Len(CriteriaOf(policyRule, Combinators[k])) = 0
         THEN LowerFields(g, rules, policyRule, k + 1, body)
    ELSE Only({
             IF sub.err THEN [err |-> TRUE, g |-> sub.g, rules |-> sub.rules, body |-> body]
             ELSE Only({ LowerFields(sub.g, sub.rules, policyRule, k + 1, body1)
                       : body1 \in {(IF Len(body) = 0 THEN <<AssignV(sub.name)>> ELSE body)
                                       \o <<Ref(sub.name)>>} })
         : sub \in {conditionalGenerator(Combinators[k], g, rules,
                                         CriteriaOf(policyRule, Combinators[k]))} })

\* for _, policyRule := range policy.Rules { ...; rules.Add(rule) }
RECURSIVE BuildRules(_, _, _, _)
BuildRules(g, rules, policyRules, heads) ==
    IF policyRules = <<>> THEN [err |-> FALSE, g |-> g, rules |-> rules, heads |-> heads]
    ELSE Only({
             IF f.err THEN [err |-> TRUE, g |-> f.g, rules |-> f.rules, heads |-> heads]
             ELSE Only({ Only({ BuildRules(f.g, rules1, Tail(policyRules), Append(heads, rule))
                              : rules1 \in {RuleSetAdd(f.rules, rule)} })
                       : rule \in {Rule(Head(policyRules).Action, 0, "v", f.body)} })
         : f \in {LowerFields(g, rules, Head(policyRules), 1, <<>>)} })

\* the less function handed to sort.SliceStable
LessOrEqual(ri, rj) == ri.args <= rj.args

Less(ri, rj) == ri.args < rj.args

\* sort.SliceStable: a rule goes before the first rule it is less than
RECURSIVE InsertStable(_, _)
InsertStable(sorted, r) ==
    IF sorted = <<>> THEN <<r>>
    ELSE IF Less(r, Head(sorted)) THEN <<r>> \o sorted
    ELSE <<Head(sorted)>> \o InsertStable(Tail(sorted), r)

RECURSIVE SortFrom(_, _)
SortFrom(sorted, rest) ==
    IF rest = <<>> THEN sorted
    ELSE Only({ SortFrom(sorted1, Tail(rest))
              : sorted1 \in {InsertStable(sorted, Head(rest))} })

SliceStable(rules) == SortFrom(<<>>, rules)

\* ast.WalkRules: r.SetLoc(ast.NewLocation(..., i, 1)); i++
SetLocs(rules) == [i \in 1..Len(rules) |-> [rules[i] EXCEPT !.loc = i]]

PackagePath == <<"policy.rego", "pomerium", "policy">>

NilModule == [nil |-> TRUE]

SeedRules == RuleSetAdd(RuleSetAdd(<<>>, DefaultRule(N_allow)), DefaultRule(N_deny))

\* what Generate leaves: the generator, (mod, err), and for the record the head
\* rules it built and the rule set before the sort
GeneratePartialOnError(g, policyRules) ==
    Only({ Only({
        [err |-> b.err, g |-> b.g, heads |-> b.heads, added |-> b.rules,
         mod |-> [Package |-> PackagePath, Rules |-> SetLocs(sorted)]]
    : sorted \in {SliceStable(b.rules)} })
    : b \in {BuildRules(g, SeedRules, policyRules, <<>>)} })

Generate(g, policyRules) ==
    Only({
        IF b.err
        THEN [err |-> TRUE, g |-> b.g, heads |-> b.heads, added |-> b.rules, mod |-> NilModule]
        ELSE Only({ [err |-> FALSE, g |-> b.g, heads |-> b.heads, added |-> b.rules,
                     mod |-> [Package |-> PackagePath, Rules |-> SetLocs(sorted)]]
                  : sorted \in {SliceStable(b.rules)} })
    : b \in {BuildRules(g, SeedRules, policyRules, <<>>)} })

(***************************************************************************)
(* The policies Generate is called with                                    *)
(***************************************************************************)
Actions == {N_allow, N_deny}

Criterion(name, data) == [Name |-> name, Data |-> data]

Criteria ==
    {Criterion(N_email, "ok"), Criterion(N_claim, "ok"), Criterion(N_email, "malformed"),
     Criterion(N_nope, "ok")}

PolicyRule(action) == [Action |-> action, And |-> <<>>, Or |-> <<>>, Not |-> <<>>, Nor |-> <<>>]

WithCriterion(policyRule, comb, criterion) ==
    CASE comb = "and" -> [policyRule EXCEPT !.And = Append(@, criterion)]
      [] comb = "or" -> [policyRule EXCEPT !.Or = Append(@, criterion)]
      [] comb = "not" -> [policyRule EXCEPT !.Not = Append(@, criterion)]
      [] OTHER -> [policyRule EXCEPT !.Nor = Append(@, criterion)]

\* every policy with at most n policy rules and criteria together
RECURSIVE PoliciesOver(_, _, _)
PoliciesOver(n, combs, criteria) ==
    IF n = 0 THEN {<<>>}
    ELSE LET prev == PoliciesOver(n - 1, combs, criteria)
         IN  prev \cup {Append(p, PolicyRule(a)) : p \in prev, a \in Actions}
                  \cup {[p EXCEPT ![Len(p)] = WithCriterion(@, cc[1], cc[2])] :
                            p \in {q \in prev : q # <<>>}, cc \in combs \X criteria}

Policies == PoliciesOver(MaxPolicySize, {"and", "or", "not", "nor"}, Criteria)

NamePolicies == PoliciesOver(MaxNamePolicySize, {"and"}, {Criterion(N_accept, "ok")})

\* names NewRule is called with directly
NameBases == {N_and, N_and \o <<"_", "1">>}

(***************************************************************************)
(* Generator actions                                                       *)
(***************************************************************************)
\* no Generate call has returned yet
NoReturn == [err |-> FALSE, mod |-> NilModule]

GenInit ==
    /\ ids = EmptyMap
    /\ issued = EmptyMap
    /\ policy = <<>>
    /\ built = [heads |-> <<>>, added |-> <<>>]
    /\ ret = NoReturn

\* NewRule calls the generator has served so far
RECURSIVE Total(_, _)
Total(f, keys) ==
    IF keys = {} THEN 0
    ELSE Only({ f[k] + Total(f, keys \ {k}) : k \in {CHOOSE x \in keys : TRUE} })

IdsTotal == Total(ids, DOMAIN ids)

\* g.NewRule(name)
NewRuleCall(names, cap) ==
    /\ IdsTotal < cap
    /\ \E name \in names :
          \E r \in {NewRule([ids |-> ids, issued |-> issued], name)} :
              /\ ids' = r.g.ids
              /\ issued' = r.g.issued
    /\ UNCHANGED <<policy, built, ret>>

\* mod, err := g.Generate(policy)
GenerateCall(policies, cap, first) ==
    /\ IdsTotal < cap
    /\ first => ret = NoReturn
    /\ \E p \in policies :
          \E r \in {Generate([ids |-> ids, issued |-> issued], p)} :
              /\ ids' = r.g.ids
              /\ issued' = r.g.issued
              /\ policy' = p
              /\ built' = [heads |-> r.heads, added |-> r.added]
              /\ ret' = [err |-> r.err, mod |-> r.mod]

Init == EvalInit /\ GenInit

Next ==
    \/ Construct(Configs) /\ UNCHANGED genVars
    \/ \E c \in Solo, in \in Inputs : Call(c, in) /\ UNCHANGED genVars
    \/ \E c \in Solo : Iterate(c) /\ UNCHANGED genVars
    \/ \E c \in Solo : Return(c) /\ UNCHANGED genVars
    \/ \E c \in Solo : Release(c) /\ UNCHANGED genVars

Spec == Init /\ [][Next]_vars

NextConc ==
    \/ Construct(ConcConfigs) /\ UNCHANGED genVars
    \/ \E c \in Callers, in \in Inputs : Call(c, in) /\ UNCHANGED genVars
    \/ \E c \in Callers : Iterate(c) /\ UNCHANGED genVars
    \/ \E c \in Callers : Return(c) /\ UNCHANGED genVars
    \/ \E c \in Callers : Release(c) /\ UNCHANGED genVars

SpecConc == Init /\ [][NextConc]_vars

\* the first Generate call of a generator that has served at most MaxPriorCalls
\* names, on any policy
NextGen ==
    \/ NewRuleCall({N_and}, MaxPriorCalls) /\ UNCHANGED evalVars
    \/ GenerateCall(Policies, MaxPriorCalls + 1, TRUE) /\ UNCHANGED evalVars

SpecGen == Init /\ [][NextGen]_vars

\* any mix of NewRule calls and of Generate calls, the Generate calls on a
\* generator that has served fewer than MaxGenerateStart names
NextNames ==
    \/ NewRuleCall(NameBases, MaxNames) /\ UNCHANGED evalVars
    \/ GenerateCall(NamePolicies, MaxGenerateStart, FALSE) /\ UNCHANGED evalVars

SpecNames == Init /\ [][NextNames]_vars

(***************************************************************************)
(* What a query's result holds, read off the engine's result tree          *)
(***************************************************************************)
\* the query's execution fails or yields zero result sets
Fails(query, in) == Eval(query, in).err \/ Len(Eval(query, in).rs) = 0

ResultOf(query, in) == Eval(query, in).rs[1].result

HasDenyField(query, in) ==
    /\ ~Fails(query, in)
    /\ ResultOf(query, in).t = "obj"
    /\ "deny" \in DOMAIN ResultOf(query, in).o

DenyArray(query, in) == ResultOf(query, in).o.deny.a

\* deny is absent, not an array, or an array that is not a 2-element pair
ShapelessDeny(query, in) ==
    /\ ~Fails(query, in)
    /\ \/ ~HasDenyField(query, in)
       \/ ResultOf(query, in).o.deny.t # "arr"
       \/ Len(DenyArray(query, in)) # 2

\* deny is a pair whose status does not read as an integer
MalformedStatus(query, in) ==
    /\ HasDenyField(query, in)
    /\ ResultOf(query, in).o.deny.t = "arr"
    /\ Len(DenyArray(query, in)) = 2
    /\ ~Atoi(Sprint(DenyArray(query, in)[1])).ok

AllowField(query, in) ==
    /\ ResultOf(query, in).t = "obj"
    /\ "allow" \in DOMAIN ResultOf(query, in).o
    /\ ResultOf(query, in).o.allow.t = "bool"
    /\ ResultOf(query, in).o.allow.b

\* the denial of the last query of r that produced one
LastDenial(r) ==
    LET D == {i \in 1..Len(r) : r[i].out.Deny.has}
    IN  IF D = {} THEN NoDenial ELSE r[CHOOSE i \in D : \A j \in D : j <= i].out.Deny

RanQueries(c) == [i \in 1..Len(ran[c]) |-> ran[c][i].query]

(***************************************************************************)
(* Claims about the evaluator                                              *)
(***************************************************************************)
\* C1: when every query yields an output, Evaluate returns an output whose
\* allow is the OR of the per-query allow values and whose deny is the denial
\* of the last query, in construction order, that produced one (none if none did).
C1_MergedVerdict ==
    \A c \in Callers :
        /\ (\A i \in 1..Len(ran[c]) : ran[c][i].kind = "ok") => pc[c] \in {"idle", "loop", "ok"}
        /\ pc[c] = "ok" => Len(ran[c]) = Len(evaluator.queries)
        /\ pc[c] \in {"loop", "ok"} =>
              /\ \A i \in 1..Len(ran[c]) : ran[c][i].kind = "ok"
              /\ output[c].Allow = (\E i \in 1..Len(ran[c]) : ran[c][i].out.Allow)
              /\ output[c].Deny = LastDenial(ran[c])

\* an earlier denial, overridden by a later one, kept over a last query without one
C1_Witness ==
    \E c \in Callers :
        /\ pc[c] = "ok"
        /\ Len(ran[c]) = 3
        /\ ran[c][1].out.Deny.has /\ ran[c][2].out.Deny.has /\ ~ran[c][3].out.Deny.has
        /\ ran[c][1].out.Deny # ran[c][2].out.Deny
        /\ ~ran[c][1].out.Allow /\ ~ran[c][2].out.Allow /\ ran[c][3].out.Allow
        /\ output[c] = PolicyOutput(TRUE, ran[c][2].out.Deny)

\* C2: a query whose execution fails or yields zero result sets ends the call
\* with an error and no PolicyOutput, and no later query is executed.
C2_FailStop ==
    \A c \in Callers : \A i \in 1..Len(ran[c]) :
        Fails(ran[c][i].query, input[c]) =>
            /\ pc[c] = "error"
            /\ output[c] = NilOutput
            /\ i = Len(ran[c])

\* a zero-row query after a query that allowed, with a query left unexecuted
C2_Witness ==
    \E c \in Callers :
        /\ pc[c] = "error"
        /\ Len(ran[c]) = 2 /\ Len(evaluator.queries) = 3
        /\ ran[c][1].kind = "ok" /\ ran[c][1].out.Allow
        /\ Eval(ran[c][2].query, input[c]) = [err |-> FALSE, rs |-> <<>>]

\* C3: a query whose deny value is absent or has the wrong shape contributes no
\* denial, and Evaluate neither fails nor crashes on it.
C3_ShapelessDenyIgnored ==
    \A c \in Callers : \A i \in 1..Len(ran[c]) :
        ShapelessDeny(ran[c][i].query, input[c]) =>
            /\ ran[c][i].kind = "ok"
            /\ ~ran[c][i].out.Deny.has

\* C4: a deny pair whose status is not an integer contributes no denial, its
\* allow is merged, the call does not fail on it and goes on to the next query,
\* keeping the denial accumulated so far.
C4_MalformedStatusTolerated ==
    \A c \in Callers : \A i \in 1..Len(ran[c]) :
        MalformedStatus(ran[c][i].query, input[c]) =>
            /\ ran[c][i].kind = "ok"
            /\ ~ran[c][i].out.Deny.has
            /\ ran[c][i].out.Allow = AllowField(ran[c][i].query, input[c])
            /\ i = Len(ran[c]) => /\ pc[c] \in {"loop", "ok"}
                                  /\ pc[c] = "loop" => idx[c] = i + 1
                                  /\ pc[c] = "ok" => i = Len(evaluator.queries)
            /\ pc[c] \in {"loop", "ok"} =>
                  /\ ran[c][i].out.Allow => output[c].Allow
                  /\ output[c].Deny = LastDenial(ran[c])

\* a denial, then a malformed pair that allows, then a query that does neither
C4_Witness ==
    \E c \in Callers :
        /\ pc[c] = "ok"
        /\ Len(ran[c]) = 3
        /\ MalformedStatus(ran[c][2].query, input[c])
        /\ ran[c][1].out.Deny.has
        /\ ~ran[c][1].out.Allow /\ ~ran[c][3].out.Allow
        /\ output[c] = PolicyOutput(TRUE, ran[c][1].out.Deny)

RECURSIVE AllRego(_)
AllRego(sps) == IF sps = <<>> THEN <<>> ELSE Head(sps).Rego \o AllRego(Tail(sps))

NonEmpty(src) == src # ""

ExpectedScripts(configPolicy) ==
    <<GenerateRegoFromPolicy(configPolicy.PPL).script>>
        \o SelectSeq(AllRego(configPolicy.SubPolicies), NonEmpty)

\* C5: a constructed evaluator holds the base program's query, then one query
\* per non-empty fragment in the order supplied; every call executes the
\* queries in that order.
C5_ConstructionOrder ==
    evaluator.state = "ready" =>
        /\ evaluator.queries = ExpectedScripts(config)
        /\ \A c \in Callers :
              /\ Len(ran[c]) <= Len(evaluator.queries)
              /\ RanQueries(c) = SubSeq(evaluator.queries, 1, Len(ran[c]))
              /\ pc[c] = "ok" => Len(ran[c]) = Len(evaluator.queries)

\* two sub-policies with a fragment each, and a call that ran all three queries
C5_Witness ==
    /\ evaluator.state = "ready"
    /\ Len(config.SubPolicies) = 2
    /\ config.SubPolicies[1].Rego = <<"deny401">>
    /\ config.SubPolicies[2].Rego = <<"allow">>
    /\ \E c \in Callers : pc[c] = "ok" /\ RanQueries(c) = <<"base:deny", "deny401", "allow">>

\* C6: concurrent calls on one evaluator: no step of a call writes the query
\* list or a call's input, and each call returns what it returns when run alone.
C6_ConcurrentCalls ==
    /\ [](\A c \in Callers :
            pc[c] \in {"ok", "error", "panic"} =>
                [pc |-> pc[c], output |-> output[c]]
                    = Evaluate(NewPolicyEvaluator(config).queries, input[c]))
    /\ [][/\ evaluator.state = "ready" => evaluator' = evaluator
          /\ \A c \in Callers : (pc[c] # "idle" /\ pc'[c] # "idle") => input'[c] = input[c]]_vars

\* two calls with different inputs, both returned, with different verdicts
C6_Witness ==
    /\ pc["c1"] = "ok" /\ pc["c2"] = "ok"
    /\ Len(evaluator.queries) >= 2
    /\ input["c1"] # input["c2"]
    /\ output["c1"] # output["c2"]

(***************************************************************************)
(* Claims about the Generator                                              *)
(***************************************************************************)
\* a Generate call has returned a module
Returned == ~ret.err /\ ret # NoReturn

Unlocated(rule) == [rule EXCEPT !.loc = 0]

\* C7: the k-th NewRule call for a base returns <base>_<k-1>, the counter of a
\* base is the number of calls served for it, and no name is returned twice.
C7_NamesUnique ==
    /\ DOMAIN ids = DOMAIN issued
    /\ \A base \in DOMAIN issued :
          /\ ids[base] = Len(issued[base])
          /\ \A k \in 1..Len(issued[base]) : issued[base][k] = base \o <<"_">> \o Dec(k - 1)
    /\ \A b1 \in DOMAIN issued, b2 \in DOMAIN issued :
          \A k1 \in 1..Len(issued[b1]), k2 \in 1..Len(issued[b2]) :
              issued[b1][k1] = issued[b2][k2] => (b1 = b2 /\ k1 = k2)

\* eleven names for "and", some of them from a Generate call, and a name for "and_1"
C7_Witness ==
    /\ N_and \in DOMAIN issued /\ Len(issued[N_and]) >= 11
    /\ N_and \o <<"_", "1">> \in DOMAIN issued
    /\ N_accept \in DOMAIN issued
    /\ Returned

\* C8: in a returned program a rule with fewer positional arguments comes
\* before one with more, and rules with the same number of arguments keep the
\* order in which they were added, the two default rules first.
C8_StableArityOrder ==
    Returned =>
        LET rs == ret.mod.Rules
            SameRules(k) ==
                LET HasArgs(r) == r.args = k
                IN  SelectSeq([i \in 1..Len(rs) |-> Unlocated(rs[i])], HasArgs)
                        = SelectSeq(built.added, HasArgs)
        IN  /\ Len(rs) = Len(built.added)
            /\ \A i \in 1..Len(rs), j \in 1..Len(rs) : rs[i].args < rs[j].args => i < j
            /\ \A k \in 0..2 : SameRules(k)
            /\ Unlocated(rs[1]) = DefaultRule(N_allow)
            /\ Unlocated(rs[2]) = DefaultRule(N_deny)

\* a two-argument helper added before two one-argument helpers, all of them
\* added before rules without arguments
C8_Witness ==
    /\ Returned
    /\ \E i \in 1..Len(built.added), j \in 1..Len(built.added), k \in 1..Len(built.added) :
          /\ i < j /\ j < k
          /\ built.added[i].args = 2
          /\ built.added[j].args = 1
          /\ built.added[k].args = 1
          /\ built.added[Len(built.added)].args = 0

PolicyFails(policyRules) ==
    \E i \in 1..Len(policyRules) : \E k \in 1..Len(Combinators) :
        \E n \in 1..Len(CriteriaOf(policyRules[i], Combinators[k])) :
            CriterionFails(CriteriaOf(policyRules[i], Combinators[k])[n])

\* C9: when a criterion of the policy is unregistered or malformed, Generate
\* returns an error and no module, whatever had been built before.
C9_NoPartialProgram ==
    /\ PolicyFails(policy) => ret.err
    /\ ret.err => ret.mod = NilModule

\* the second policy rule fails after the first one was lowered and added
C9_Witness ==
    /\ ret.err
    /\ Len(policy) = 2
    /\ Len(built.heads) = 1
    /\ Len(built.heads[1].body) = 2
    /\ Len(built.added) > 3

NonEmptyCombinators(policyRule) ==
    LET Present(comb) == CriteriaOf(policyRule, comb) # <<>>
    IN  SelectSeq(Combinators, Present)

\* name is <base>_<digits>
IsNameOf(name, base) ==
    /\ Len(name) > Len(base) + 1
    /\ SubSeq(name, 1, Len(base) + 1) = base \o <<"_">>
    /\ \A i \in Len(base) + 2..Len(name) : name[i] \in DigitChars

\* the head rule built for policy rule k: named after the action, an assignment
\* of v from the first non-empty combinator's sub-rule, then one constraint per
\* non-empty combinator in the order AND, OR, NOT, NOR
HeadShape(k) ==
    LET head == built.heads[k]
        combs == NonEmptyCombinators(policy[k])
    IN  /\ head.name = policy[k].Action
        /\ head.args = 0
        /\ Len(head.body) = IF Len(combs) = 0 THEN 0 ELSE Len(combs) + 1
        /\ Len(combs) > 0 =>
              /\ head.body[1] = AssignV(head.body[2].name)
              /\ \A j \in 1..Len(combs) :
                    /\ head.body[j + 1].op = "ref"
                    /\ IsNameOf(head.body[j + 1].name, CombinatorName(combs[j]))
                    /\ \E i \in 1..Len(built.added) : built.added[i].name = head.body[j + 1].name

IsHeadRule(rule) == rule.name \in Actions /\ ~rule.default

AllListsEmpty(policyRule) == NonEmptyCombinators(policyRule) = <<>>

\* C10 as stated: one head rule in the program for each policy rule, its body
\* built from the non-empty combinators.
C10_OneHeadPerPolicyRule ==
    /\ Len(built.heads) <= Len(policy)
    /\ \A k \in 1..Len(built.heads) : HeadShape(k)
    /\ Returned =>
          /\ Len(built.heads) = Len(policy)
          /\ Len(SelectSeq(ret.mod.Rules, IsHeadRule)) = Len(policy)

\* C10 as it holds: one head rule is built for each policy rule, its body built
\* from the non-empty combinators; the program holds every built head rule, and
\* holds it once: a policy rule with the same action as an earlier one and all
\* four lists empty, as that one has, adds no further rule.
C10_HeadRules ==
    /\ Len(built.heads) <= Len(policy)
    /\ \A k \in 1..Len(built.heads) : HeadShape(k)
    /\ Returned =>
          /\ Len(built.heads) = Len(policy)
          /\ \A k \in 1..Len(policy) :
                \E i \in 1..Len(ret.mod.Rules) : Unlocated(ret.mod.Rules[i]) = built.heads[k]
          /\ Len(SelectSeq(ret.mod.Rules, IsHeadRule))
                = Cardinality({built.heads[k] : k \in 1..Len(policy)})
          /\ \A k1 \in 1..Len(policy), k2 \in 1..Len(policy) :
                (k1 # k2 /\ built.heads[k1] = built.heads[k2]) <=>
                    /\ k1 # k2
                    /\ policy[k1].Action = policy[k2].Action
                    /\ AllListsEmpty(policy[k1]) /\ AllListsEmpty(policy[k2])

\* AND empty and OR, NOT, NOR present: v is assigned from the OR sub-rule
C10_Witness ==
    /\ Returned
    /\ Len(policy) = 1
    /\ NonEmptyCombinators(policy[1]) = <<"or", "not", "nor">>
    /\ Len(built.heads[1].body) = 4
    /\ IsNameOf(built.heads[1].body[1].name, N_or)

====
